---- MODULE Spec2Model ----
(***************************************************************************)
(* A model of zk's SQLite note index (NoteDAO): the index writer with      *)
(* forward-reference healing of links (Add, Update, Remove), and the       *)
(* filter compiler and link-graph traversal behind Find (findRows).        *)
(*                                                                         *)
(* Strings whose characters matter (paths, hrefs, titles, tag patterns)    *)
(* are sequences of one-character strings.                                 *)
(***************************************************************************)
EXTENDS Integers, Sequences, FiniteSets, TLC

VARIABLES
    notes,      \* rows of the notes table, as seen by the open transaction
    links,      \* rows of the links table, as seen by the open transaction
    lastId,     \* the AUTOINCREMENT sequence of notes.id
    committed,  \* the database as of the last commit: [notes, links, lastId]
    failed,     \* an operation of the open transaction returned a write error
    txOps,      \* number of write operations run in the open transaction
    ret         \* what the last call returned, with its arguments

vars == <<notes, links, lastId, committed, failed, txOps, ret>>

-----------------------------------------------------------------------------
(* Bounds of the model.                                                    *)

\* ids handed out by the notes table before the model stops adding notes
MaxId == 3
\* how many of PathList's paths notes are added at
NumPaths == 3
\* how many of LinkList's authored links a note's link list draws from
NumLinkKinds == 3
\* longest authored link list of a note
MaxLinks == 1
\* write operations per transaction
MaxTxOps == 1
\* notes of the link graphs Find is run on
GraphNotes == 4
\* links of those graphs
MaxEdges == 3
\* largest maxDistance a link filter is given
MaxDistanceArg == 2
\* notes of the catalogs the tag, sort and mention queries are run on
CatalogNotes == 3
\* how many of ProfileList's note contents a catalog draws from
NumProfiles == 3
\* how many of TagArgList's tag groups a query draws from
NumTagArgs == 7
\* tag groups per query
MaxTagGroups == 1
\* sorters per query
MaxSorters == 1
\* largest Limit of a query
MaxLimit == 1

-----------------------------------------------------------------------------
(* Values.                                                                 *)

\* core.NoteId(0): the invalid id, stored as SQL NULL (idToSql)
NullId == 0

NoErr == "ok"

PathList ==
    << <<"a">>, <<"a", "b">>, <<"b">>, <<"b", "a">>, <<"A">> >>

Paths == {PathList[i] : i \in 1..NumPaths}

\* a path no model note is ever stored at
MissingPath == <<"z">>

\* authored links: href as written, and whether the parser flagged it external
LinkList ==
    << [href |-> <<"a">>, external |-> FALSE],
       [href |-> <<"b">>, external |-> TRUE],
       [href |-> <<"a", "b">>, external |-> FALSE],
       [href |-> <<"b">>, external |-> FALSE],
       [href |-> <<"_">>, external |-> FALSE] >>

LinkKinds == {LinkList[i] : i \in 1..NumLinkKinds}

SeqsUpTo(S, n) == UNION {[1..k -> S] : k \in 0..n}

-----------------------------------------------------------------------------
(* SQLite's LIKE, as the statements use it: % matches any run of           *)
(* characters, _ any one character, letters compare case-insensitively.    *)

Lower(c) ==
    CASE c = "A" -> "a"
      [] c = "B" -> "b"
      [] OTHER -> c

RECURSIVE Like(_, _)
Like(pattern, s) ==
    IF pattern = <<>> THEN s = <<>>
    ELSE IF Head(pattern) = "%"
         THEN Like(Tail(pattern), s) \/ (s # <<>> /\ Like(pattern, Tail(s)))
         ELSE /\ s # <<>>
              /\ (Head(pattern) = "_" \/ Lower(Head(pattern)) = Lower(Head(s)))
              /\ Like(Tail(pattern), Tail(s))

\* s LIKE prefix || '%'
LikePrefix(prefix, s) == Like(prefix \o <<"%">>, s)

\* strings.HasPrefix, for stating claims
IsPrefix(p, s) == Len(p) <= Len(s) /\ SubSeq(s, 1, Len(p)) = p

-----------------------------------------------------------------------------
(* Rows and records.                                                       *)

\* The fields of a note the model keeps.  tags are the note's rows of
\* notes_collections (written by another DAO); words and score stand for the
\* note's entry in the full-text index notes_fts: the phrases of its body
\* and its bm25 rank for the caller's match expression; authored stands for
\* raw_content, the text the parser read the note's links from.
NoteRow(id, note, tags) ==
    [id |-> id, path |-> note.path, title |-> note.title,
     wordCount |-> note.wordCount, aliases |-> note.aliases,
     words |-> note.words, score |-> note.score, tags |-> tags,
     authored |-> note.links]

\* note.Metadata as the indexer hands it to Add and Update in this model:
\* only the path and the authored links vary.
WriteNote(path, authored) ==
    [path |-> path, title |-> path, wordCount |-> 0, aliases |-> <<>>,
     words |-> {}, score |-> 0, links |-> authored]

WriteNotes == {WriteNote(p, ls) : p \in Paths, ls \in SeqsUpTo(LinkKinds, MaxLinks)}

Ids(ns) == {n.id : n \in ns}

NoteById(ns, id) == CHOOSE n \in ns : n.id = id

Db(ns, ls, seq) == [notes |-> ns, links |-> ls, lastId |-> seq]

-----------------------------------------------------------------------------
(* Lookups.                                                                *)

\* SELECT id FROM notes WHERE path = ?  (the schema makes path unique)
findIdByPath(ns, path) ==
    IF \E n \in ns : n.path = path
    THEN (CHOOSE n \in ns : n.path = path).id
    ELSE NullId

\* SELECT id FROM notes WHERE path LIKE ? || '%', first row.  The statement
\* has no ORDER BY: which matching row comes first is SQLite's choice, so
\* this is the set of ids the call may return.
findIdByPathPrefix(ns, prefix) ==
    LET found == {n.id : n \in {m \in ns : LikePrefix(prefix, m.path)}}
    IN IF found = {} THEN {NullId} ELSE found

\* The resolutions findIdsByPathPrefixes may return for a list of paths:
\* one id per path, in order, the unresolved paths dropped.
RECURSIVE findIdsByPathPrefixes(_, _)
findIdsByPathPrefixes(ns, paths) ==
    IF paths = <<>> THEN {<<>>}
    ELSE {(IF id = NullId THEN <<>> ELSE <<id>>) \o rest :
            id \in findIdByPathPrefix(ns, Head(paths)),
            rest \in findIdsByPathPrefixes(ns, Tail(paths))}

-----------------------------------------------------------------------------
(* The index writer.                                                       *)

\* A link row.  pos, the link's place in its note's list, stands for the
\* row's own AUTOINCREMENT id.
LinkRow(id, pos, target, link) ==
    [src |-> id, pos |-> pos, tgt |-> target,
     href |-> link.href, external |-> link.external]

\* setLinksTargetStmt: UPDATE links SET target_id = id
\*   WHERE target_id IS NULL AND external = 0 AND path LIKE href || '%'
setLinksTargetMutant(ls, id, path) == ls
setLinksTarget(ls, id, path) ==
    {IF l.tgt = NullId /\ ~l.external /\ LikePrefix(l.href, path)
     THEN [l EXCEPT !.tgt = id] ELSE l : l \in ls}

\* removeLinksStmt: DELETE FROM links WHERE source_id = id
removeLinksMutant(ls, id) == ls
removeLinks(ls, id) == {l \in ls : l.src # id}

\* addLinks, stopped by a failing statement after `done` inserts when
\* done <= Len(note.links); done = Len(note.links) + 1 is the full run, which
\* ends with the backfill.  targets[i] is what findIdByPathPrefix returned
\* for link i.
addLinksMutant(ls, id, note, targets, done) ==
    LET n == IF done > Len(note.links) THEN Len(note.links) ELSE done
        inserted == {LinkRow(id, i, targets[i], note.links[i]) : i \in 1..n}
    IN ls \cup inserted
addLinks(ls, id, note, targets, done) ==
    LET n == IF done > Len(note.links) THEN Len(note.links) ELSE done
        inserted == {LinkRow(id, i, targets[i], note.links[i]) : i \in 1..n}
    IN IF done > Len(note.links)
       THEN setLinksTarget(ls \cup inserted, id, note.path)
       ELSE ls \cup inserted

\* what findIdByPathPrefix may return for each authored link of the note
Targets(ns, note) ==
    {t \in [1..Len(note.links) -> Ids(ns) \cup {NullId}] :
        \A i \in 1..Len(note.links) :
            t[i] \in findIdByPathPrefix(ns, note.links[i].href)}

\* The schema's foreign keys on links: source_id ... ON DELETE CASCADE,
\* target_id ... ON DELETE SET NULL.
DeleteCascade(ls, id) ==
    {IF l.tgt = id THEN [l EXCEPT !.tgt = NullId] ELSE l :
        l \in {k \in ls : k.src # id}}

\* what a call returned (err, id), with the call's name and arguments
Ret(op, path, err, id) ==
    [op |-> op, path |-> path, authored |-> <<>>, err |-> err, id |-> id]

NoteRet(op, note, err, id) ==
    [op |-> op, path |-> note.path, authored |-> note.links, err |-> err, id |-> id]

\* Add.  fail = 0: every statement succeeds; fail = 1: addStmt fails;
\* fail = 1 + i: the i-th addLinkStmt fails; fail = Len(links) + 2:
\* setLinksTargetStmt fails.  The schema's UNIQUE(path) makes addStmt fail
\* on a path already indexed.
AddNote(note, fail) ==
    LET dup == \E n \in notes : n.path = note.path
        id == lastId + 1
        ns == notes \cup {NoteRow(id, note, {})}
    IN /\ ~failed
       /\ txOps < MaxTxOps
       /\ lastId < MaxId
       /\ txOps' = txOps + 1
       /\ UNCHANGED committed
       /\ IF dup \/ fail = 1
          THEN /\ UNCHANGED <<notes, links, lastId>>
               /\ failed' = TRUE
               /\ ret' = NoteRet("Add", note,
                             IF dup THEN "DuplicatePath" ELSE "DbError", NullId)
          ELSE \E targets \in Targets(ns, note) :
               /\ notes' = ns
               /\ lastId' = id
               /\ links' = addLinks(links, id, note, targets,
                                    IF fail = 0 THEN Len(note.links) + 1 ELSE fail - 2)
               /\ failed' = (fail # 0)
               /\ ret' = NoteRet("Add", note,
                             IF fail = 0 THEN NoErr ELSE "DbError", id)

Add ==
    \E note \in WriteNotes : \E fail \in 0..(Len(note.links) + 2) :
        AddNote(note, fail)

\* Update.  fail = 0: every statement succeeds; 1: updateStmt fails;
\* 2: removeLinksStmt fails; 2 + i: the i-th addLinkStmt fails;
\* Len(links) + 3: setLinksTargetStmt fails.
UpdateNote(note, fail) ==
    LET id == findIdByPath(notes, note.path)
        old == NoteById(notes, id)
        ns == (notes \ {old}) \cup {NoteRow(id, note, old.tags)}
    IN /\ ~failed
       /\ txOps < MaxTxOps
       /\ txOps' = txOps + 1
       /\ UNCHANGED <<committed, lastId>>
       /\ IF id = NullId
          THEN /\ UNCHANGED <<notes, links>>
               /\ failed' = TRUE
               /\ ret' = NoteRet("Update", note, "NotFound", NullId)
          ELSE IF fail = 1
          THEN /\ UNCHANGED <<notes, links>>
               /\ failed' = TRUE
               /\ ret' = NoteRet("Update", note, "DbError", id)
          ELSE IF fail = 2
          THEN /\ notes' = ns
               /\ UNCHANGED links
               /\ failed' = TRUE
               /\ ret' = NoteRet("Update", note, "DbError", id)
          ELSE \E targets \in Targets(ns, note) :
               /\ notes' = ns
               /\ links' = addLinks(removeLinks(links, id), id, note, targets,
                                    IF fail = 0 THEN Len(note.links) + 1 ELSE fail - 3)
               /\ failed' = (fail # 0)
               /\ ret' = NoteRet("Update", note,
                             IF fail = 0 THEN NoErr ELSE "DbError", id)

Update ==
    \E note \in WriteNotes : \E fail \in 0..(Len(note.links) + 3) :
        UpdateNote(note, fail)

\* Remove.  fail: removeStmt fails.
RemoveNoteMutant(path, fail) ==
    LET id == findIdByPath(notes, path)
    IN /\ ~failed
       /\ txOps < MaxTxOps
       /\ txOps' = txOps + 1
       /\ UNCHANGED <<committed, lastId>>
       /\ notes' = {n \in notes : n.id # id}
       /\ links' = DeleteCascade(links, id)
       /\ failed' = FALSE
       /\ ret' = Ret("Remove", path, NoErr, id)
RemoveNote(path, fail) ==
    LET id == findIdByPath(notes, path)
    IN /\ ~failed
       /\ txOps < MaxTxOps
       /\ txOps' = txOps + 1
       /\ UNCHANGED <<committed, lastId>>
       /\ IF id = NullId \/ fail
          THEN /\ UNCHANGED <<notes, links>>
               /\ failed' = TRUE
               /\ ret' = Ret("Remove", path,
                             IF id = NullId THEN "NotFound" ELSE "DbError", NullId)
          ELSE /\ notes' = notes \ {NoteById(notes, id)}
               /\ links' = DeleteCascade(links, id)
               /\ failed' = FALSE
               /\ ret' = Ret("Remove", path, NoErr, id)

Remove == \E path \in Paths, fail \in BOOLEAN : RemoveNote(path, fail)

-----------------------------------------------------------------------------
(* The transaction around the DAO's calls (db.WithTransaction): the        *)
(* callback's error decides between commit and rollback, and a crash loses *)
(* what was not committed.                                                 *)

Commit ==
    /\ ~failed
    /\ txOps > 0
    /\ committed' = Db(notes, links, lastId)
    /\ txOps' = 0
    /\ ret' = Ret("Commit", <<>>, NoErr, NullId)
    /\ UNCHANGED <<notes, links, lastId, failed>>

Rollback ==
    /\ txOps > 0
    /\ notes' = committed.notes
    /\ links' = committed.links
    /\ lastId' = committed.lastId
    /\ failed' = FALSE
    /\ txOps' = 0
    /\ ret' = Ret("Rollback", <<>>, NoErr, NullId)
    /\ UNCHANGED committed

-----------------------------------------------------------------------------
(* Find: mention expansion.                                                *)

\* note.FinderOpts.  An optional field is <<>> when nil and <<v>> when set.
\* match is a list of OR-groups of phrases, all of which must match (FTS5's
\* implicit AND); Match.IsNull() is match = <<>>.
NoOpts ==
    [match |-> <<>>, tags |-> <<>>, linkedBy |-> <<>>, linkTo |-> <<>>,
     related |-> <<>>, mention |-> <<>>, excludeIds |-> <<>>,
     sorters |-> <<>>, limit |-> 0, orphan |-> FALSE]

LinkFilter(paths, negate, recursive, maxDistance) ==
    [paths |-> paths, negate |-> negate, recursive |-> recursive,
     maxDistance |-> maxDistance]

Range(f) == {f[i] : i \in DOMAIN f}

\* strings.ReplaceAll(t, `"`, "")
Unquote(t) == SelectSeq(t, LAMBDA c : c # "\"")

\* titles: the title of every mentioned note and its aliases, quotes removed
MentionTitles(ns, ids) ==
    UNION {{Unquote(n.title)} \cup {Unquote(a) : a \in Range(n.aliases)} :
             n \in {m \in ns : m.id \in Range(ids)}}

\* expandMentionsIntoMatch, given the ids findIdsByPathPrefixes returned.
expandMentionsIntoMatchMutant(ns, opts, ids) ==
    IF opts.mention = <<>> THEN [err |-> NoErr, opts |-> opts]
    ELSE IF ids = <<>> THEN [err |-> "MentionNotFound", opts |-> opts]
    ELSE [err |-> NoErr,
          opts |-> [opts EXCEPT !.match = opts.match \o <<MentionTitles(ns, ids)>>]]
expandMentionsIntoMatch(ns, opts, ids) ==
    IF opts.mention = <<>> THEN [err |-> NoErr, opts |-> opts]
    ELSE IF ids = <<>> THEN [err |-> "MentionNotFound", opts |-> opts]
    ELSE [err |-> NoErr,
          opts |-> [opts EXCEPT
                      !.excludeIds = IF opts.excludeIds = <<>>
                                     THEN <<ids>>
                                     ELSE <<opts.excludeIds[1] \o ids>>,
                      !.match = opts.match \o <<MentionTitles(ns, ids)>>]]

\* notes_fts MATCH ?: the full-text index holds the note's title and body
FtsMatch(n, match) ==
    \A i \in 1..Len(match) :
        \E phrase \in match[i] : phrase = Unquote(n.title) \/ phrase \in n.words

-----------------------------------------------------------------------------
(* Find: tag groups.                                                       *)

RECURSIVE TrimLeft(_)
TrimLeft(s) == IF s # <<>> /\ Head(s) = " " THEN TrimLeft(Tail(s)) ELSE s

RECURSIVE TrimRight(_)
TrimRight(s) ==
    IF s # <<>> /\ s[Len(s)] = " " THEN TrimRight(SubSeq(s, 1, Len(s) - 1)) ELSE s

\* strings.TrimSpace
TrimSpace(s) == TrimRight(TrimLeft(s))

\* separatorRegex.Split(tagsArg, -1), the separators being " OR " and "|"
RECURSIVE SplitTags(_, _)
SplitTags(s, cur) ==
    IF s = <<>> THEN <<cur>>
    ELSE IF Head(s) = "|" THEN <<cur>> \o SplitTags(Tail(s), <<>>)
    ELSE IF Len(s) >= 4 /\ SubSeq(s, 1, 4) = <<" ", "O", "R", " ">>
         THEN <<cur>> \o SplitTags(SubSeq(s, 5, Len(s)), <<>>)
         ELSE SplitTags(Tail(s), Append(cur, Head(s)))

\* one tag of a group: whether it is negated, and its pattern
ParseTag(raw) ==
    LET tag == TrimSpace(raw)
    IN IF IsPrefix(<<"-">>, tag)
       THEN [negate |-> TRUE, glob |-> TrimSpace(Tail(tag))]
       ELSE IF IsPrefix(<<"N", "O", "T">>, tag)
       THEN [negate |-> TRUE, glob |-> TrimSpace(SubSeq(tag, 4, Len(tag)))]
       ELSE [negate |-> FALSE, glob |-> tag]

\* the loop over the tags of one group: negate is set by any negated tag,
\* empty patterns are skipped
ParseTagGroup(tagsArg) ==
    LET parts == SplitTags(tagsArg, <<>>)
        parsed == [i \in 1..Len(parts) |-> ParseTag(parts[i])]
        kept == SelectSeq(parsed, LAMBDA t : t.glob # <<>>)
    IN [negate |-> \E i \in 1..Len(parsed) : parsed[i].negate,
        globs |-> [i \in 1..Len(kept) |-> kept[i].glob]]

\* the guard of "cannot negate a tag in a OR group"
TagGroupInvalidMutant(group) == FALSE
TagGroupInvalid(group) == group.negate /\ Len(group.globs) > 1

\* SQLite's GLOB: * matches any run of characters, ? any one character
RECURSIVE Glob(_, _)
Glob(pattern, s) ==
    IF pattern = <<>> THEN s = <<>>
    ELSE IF Head(pattern) = "*"
         THEN Glob(Tail(pattern), s) \/ (s # <<>> /\ Glob(pattern, Tail(s)))
         ELSE /\ s # <<>>
              /\ (Head(pattern) = "?" \/ Head(pattern) = Head(s))
              /\ Glob(Tail(pattern), Tail(s))

\* n.id [NOT] IN (notes with a tag matching one of the group's globs)
TagGroupWhere(n, group) ==
    (\E t \in n.tags : \E g \in Range(group.globs) : Glob(g, t)) # group.negate

\* the groups of opts.Tags that compile to a WHERE expression
TagGroups(opts) ==
    {g \in {ParseTagGroup(opts.tags[i]) : i \in 1..Len(opts.tags)} : g.globs # <<>>}

-----------------------------------------------------------------------------
(* Find: link filters and the transitive closure.                          *)

\* LIMIT 100000 of the recursive query
RecursionLimit == 100000

\* The first SELECT of transitive_closure: every link, at distance 1.  path
\* is the list of ids the SQL keeps as '.source.target.'.
TcBase(ls) ==
    {[src |-> l.src, tgt |-> l.tgt, distance |-> 1, path |-> <<l.src, l.tgt>>] :
        l \in ls}

\* The recursive SELECT, applied to the rows of one distance: a row is
\* extended by a link leaving its target to a note that is not on its path,
\* while tc.distance < maxDistance when maxDistance is not 0.  (A NULL
\* target makes the NOT LIKE test NULL, which drops the row.)
TcStepNoSource(rows, ls, maxDistance) ==
    UNION {{[src |-> r.src, tgt |-> l.tgt, distance |-> r.distance + 1,
             path |-> Append(r.path, l.tgt)] :
               l \in {k \in ls : /\ k.src = r.tgt
                                 /\ k.tgt # NullId
                                 /\ k.tgt \notin Range(Tail(r.path))}} :
           r \in {q \in rows : maxDistance = 0 \/ q.distance < maxDistance}}
TcStepMutant(rows, ls, maxDistance) ==
    UNION {{[src |-> r.src, tgt |-> l.tgt, distance |-> r.distance + 1,
             path |-> Append(r.path, l.tgt)] :
               l \in {k \in ls : /\ k.src = r.tgt
                                 /\ k.tgt # NullId
                                 /\ k.tgt \notin Range(r.path)}} :
           r \in {q \in rows : maxDistance = 0 \/ q.distance <= maxDistance}}
TcStep(rows, ls, maxDistance) ==
    UNION {{[src |-> r.src, tgt |-> l.tgt, distance |-> r.distance + 1,
             path |-> Append(r.path, l.tgt)] :
               l \in {k \in ls : /\ k.src = r.tgt
                                 /\ k.tgt # NullId
                                 /\ k.tgt \notin Range(r.path)}} :
           r \in {q \in rows : maxDistance = 0 \/ q.distance < maxDistance}}

RECURSIVE TcFrom(_, _, _)
TcFrom(rows, ls, maxDistance) ==
    IF rows = {} THEN {}
    ELSE rows \cup TcFrom(TcStep(rows, ls, maxDistance), ls, maxDistance)

\* The rows of transitive_closure.  The recursive query yields them in order
\* of distance and stops after RecursionLimit rows; which rows of the last
\* distance are cut is SQLite's choice.
TransitiveClosure(ls, maxDistance) ==
    LET all == TcFrom(TcBase(ls), ls, maxDistance)
    IN IF Cardinality(all) <= RecursionLimit THEN all
       ELSE CHOOSE cut \in SUBSET all :
              /\ Cardinality(cut) = RecursionLimit
              /\ \A r \in cut, q \in all \ cut : r.distance <= q.distance

\* the rows of a link filter's source table, tc being the rows of
\* transitive_closure
LinksSrc(src, ls, tc) ==
    IF src = "transitive_closure" THEN tc
    ELSE {[src |-> l.src, tgt |-> l.tgt, distance |-> 0, path |-> <<>>] : l \in ls}

\* what findRows accumulates while it compiles the link filters
NoPlan ==
    [transitiveClosure |-> FALSE, maxDistance |-> 0, joins |-> <<>>,
     wheres |-> <<>>, groupBy |-> FALSE, having |-> FALSE]

\* setupLinkFilter, given the ids the filter's paths resolved to
setupLinkFilter(plan, ids, direction, negate, recursive) ==
    LET src == IF recursive THEN "transitive_closure" ELSE "links"
        filter == [src |-> src, direction |-> direction, ids |-> Range(ids),
                   negate |-> negate]
    IN IF ids = <<>> THEN plan
       ELSE [plan EXCEPT
               !.transitiveClosure = @ \/ recursive,
               !.joins = IF negate THEN @ ELSE Append(@, filter),
               !.groupBy = IF negate THEN @ ELSE TRUE,
               !.wheres = Append(@, filter)]

\* the three link filters, compiled in the order of findRows; seeds holds
\* the ids each filter's paths resolved to
LinkedByPlan(plan, opts, seeds) ==
    IF opts.linkedBy = <<>> THEN plan
    ELSE setupLinkFilter([plan EXCEPT !.maxDistance = opts.linkedBy[1].maxDistance],
                         seeds.linkedBy, -1,
                         opts.linkedBy[1].negate, opts.linkedBy[1].recursive)

LinkToPlan(plan, opts, seeds) ==
    IF opts.linkTo = <<>> THEN plan
    ELSE setupLinkFilter([plan EXCEPT !.maxDistance = opts.linkTo[1].maxDistance],
                         seeds.linkTo, 1,
                         opts.linkTo[1].negate, opts.linkTo[1].recursive)

RelatedPlan(plan, opts, seeds) ==
    IF opts.related = <<>> THEN plan
    ELSE [setupLinkFilter([plan EXCEPT !.maxDistance = 2],
                          seeds.related, 0, FALSE, TRUE)
            EXCEPT !.having = TRUE]

LinkPlan(opts, seeds) ==
    RelatedPlan(LinkToPlan(LinkedByPlan(NoPlan, opts, seeds), opts, seeds), opts, seeds)

\* the rows of a filter's source that tie note id to one of the filter's ids:
\* (n.id = l.target_id AND l.source_id IN ids), for direction <= 0, OR
\* (n.id = l.source_id AND l.target_id IN ids), for direction >= 0
JoinedRows(id, filter, ls, tc) ==
    {r \in LinksSrc(filter.src, ls, tc) :
        \/ filter.direction <= 0 /\ r.tgt = id /\ r.src \in filter.ids
        \/ filter.direction >= 0 /\ r.src = id /\ r.tgt # NullId /\ r.tgt \in filter.ids}

\* n.id [NOT] IN (SELECT target_id ... UNION SELECT source_id ...)
LinkWhere(id, filter, ls, tc) ==
    (JoinedRows(id, filter, ls, tc) # {}) # filter.negate

\* Every join is aliased l: two joins make l.target_id ambiguous, and
\* l.distance (in ORDER BY when a filter is recursive, in HAVING for related)
\* exists only when the one join is over transitive_closure.  SQLite rejects
\* the query otherwise.
QueryInvalid(plan) ==
    \/ Len(plan.joins) >= 2
    \/ /\ plan.transitiveClosure \/ plan.having
       /\ plan.joins = <<>> \/ plan.joins[1].src = "links"

\* HAVING MIN(l.distance) = 2
HavingMinDistance(id, plan, ls, tc) ==
    LET rows == JoinedRows(id, plan.joins[1], ls, tc)
    IN /\ rows # {}
       /\ \E r \in rows : r.distance = 2
       /\ \A r \in rows : r.distance >= 2

-----------------------------------------------------------------------------
(* Find: the query.                                                        *)

\* the ids each link filter's paths may resolve to (findIdsByPathPrefixes
\* inside setupLinkFilter)
Seeds(ns, opts) ==
    {[linkedBy |-> a, linkTo |-> b, related |-> c] :
        a \in IF opts.linkedBy = <<>> THEN {<<>>}
              ELSE findIdsByPathPrefixes(ns, opts.linkedBy[1].paths),
        b \in IF opts.linkTo = <<>> THEN {<<>>}
              ELSE findIdsByPathPrefixes(ns, opts.linkTo[1].paths),
        c \in IF opts.related = <<>> THEN {<<>>}
              ELSE findIdsByPathPrefixes(ns, opts.related[1])}

NoSeeds == [linkedBy |-> <<>>, linkTo |-> <<>>, related |-> <<>>]

\* the WHERE and HAVING clauses of the query, for one note
RowSelected(n, ls, opts, plan, tc) ==
    /\ opts.match # <<>> => FtsMatch(n, opts.match)
    /\ opts.excludeIds # <<>> => n.id \notin Range(opts.excludeIds[1])
    /\ \A g \in TagGroups(opts) : TagGroupWhere(n, g)
    /\ \A i \in 1..Len(plan.wheres) :
          LinkWhere(n.id, plan.wheres[i], ls, tc)
    /\ opts.orphan => ~\E l \in ls : l.tgt = n.id
    /\ plan.having => HavingMinDistance(n.id, plan, ls, tc)

\* orderTerm
orderTerm(sorter) == [kind |-> sorter.field, asc |-> sorter.ascending]

\* ORDER BY: l.distance first when a filter is recursive, then the caller's
\* sorters, then bm25 when there is a match expression, then n.title ASC
OrderTermsMutant(opts, plan) ==
    (IF plan.transitiveClosure THEN <<[kind |-> "distance", asc |-> TRUE]>> ELSE <<>>)
    \o (IF opts.match # <<>> THEN <<[kind |-> "bm25", asc |-> TRUE]>> ELSE <<>>)
    \o [i \in 1..Len(opts.sorters) |-> orderTerm(opts.sorters[i])]
    \o <<[kind |-> "title", asc |-> TRUE]>>
OrderTerms(opts, plan) ==
    (IF plan.transitiveClosure THEN <<[kind |-> "distance", asc |-> TRUE]>> ELSE <<>>)
    \o [i \in 1..Len(opts.sorters) |-> orderTerm(opts.sorters[i])]
    \o (IF opts.match # <<>> THEN <<[kind |-> "bm25", asc |-> TRUE]>> ELSE <<>>)
    \o <<[kind |-> "title", asc |-> TRUE]>>

\* findRows, up to the rows' order: the error, or the ids of the selected
\* notes with the query's ORDER BY terms
findRows(ns, ls, opts, seeds) ==
    LET plan == LinkPlan(opts, seeds)
        tc == IF plan.transitiveClosure
              THEN TransitiveClosure(ls, plan.maxDistance) ELSE {}
    IN IF \E i \in 1..Len(opts.tags) : TagGroupInvalid(ParseTagGroup(opts.tags[i]))
       THEN [err |-> "InvalidQuery", ids |-> {}, plan |-> NoPlan, tc |-> {},
             terms |-> <<>>]
       ELSE IF QueryInvalid(plan)
       THEN [err |-> "SqlError", ids |-> {}, plan |-> plan, tc |-> {}, terms |-> <<>>]
       ELSE [err |-> NoErr,
             ids |-> {n.id : n \in {m \in ns : RowSelected(m, ls, opts, plan, tc)}},
             plan |-> plan,
             tc |-> tc,
             terms |-> OrderTerms(opts, plan)]

\* the byte of a character (titles and paths sort in BINARY collation)
CharCode(c) ==
    CASE c = " " -> 32 [] c = "\"" -> 34 [] c = "*" -> 42 [] c = "-" -> 45
      [] c = "?" -> 63 [] c = "A" -> 65 [] c = "B" -> 66 [] c = "N" -> 78
      [] c = "O" -> 79 [] c = "R" -> 82 [] c = "T" -> 84 [] c = "_" -> 95
      [] c = "a" -> 97 [] c = "b" -> 98 [] c = "f" -> 102 [] c = "n" -> 110
      [] c = "p" -> 112 [] c = "q" -> 113 [] c = "r" -> 114 [] c = "s" -> 115
      [] c = "t" -> 116 [] c = "x" -> 120 [] c = "y" -> 121 [] c = "z" -> 122
      [] c = "|" -> 124

RECURSIVE StrLess(_, _)
StrLess(a, b) ==
    IF b = <<>> THEN FALSE
    ELSE IF a = <<>> THEN TRUE
    ELSE IF Head(a) = Head(b) THEN StrLess(Tail(a), Tail(b))
    ELSE CharCode(Head(a)) < CharCode(Head(b))

\* whether a sorts strictly before b on one column, ascending
KeyLess(kind, a, b, dist) ==
    CASE kind = "distance" -> dist[a.id] < dist[b.id]
      [] kind = "bm25" -> a.score < b.score
      [] kind = "wordCount" -> a.wordCount < b.wordCount
      [] kind = "title" -> StrLess(a.title, b.title)
      [] kind = "path" -> StrLess(a.path, b.path)

TermLess(term, a, b, dist) ==
    IF term.asc THEN KeyLess(term.kind, a, b, dist) ELSE KeyLess(term.kind, b, a, dist)

\* whether ORDER BY terms puts row a strictly before row b
RECURSIVE Before(_, _, _, _)
Before(terms, a, b, dist) ==
    IF terms = <<>> THEN FALSE
    ELSE IF TermLess(Head(terms), a, b, dist) THEN TRUE
    ELSE IF TermLess(Head(terms), b, a, dist) THEN FALSE
    ELSE Before(Tail(terms), a, b, dist)

\* l.distance in ORDER BY is a bare column of a GROUP BY n.id query: SQLite
\* takes it from some row of the note's group
Distances(ids, plan, ls, tc) ==
    IF ~plan.transitiveClosure THEN {[i \in ids |-> 0]}
    ELSE LET of(i) == {r.distance : r \in JoinedRows(i, plan.joins[1], ls, tc)}
         IN {d \in [ids -> UNION {of(i) : i \in ids}] : \A i \in ids : d[i] \in of(i)}

\* the orders in which the query may return the selected rows (rows that
\* tie on every term come in SQLite's order)
Orderings(ns, ids, terms, dist) ==
    {rows \in [1..Cardinality(ids) -> ids] :
        /\ \A i, j \in 1..Cardinality(ids) : i # j => rows[i] # rows[j]
        /\ \A i, j \in 1..Cardinality(ids) :
              i < j => ~Before(terms, NoteById(ns, rows[j]), NoteById(ns, rows[i]), dist)}

\* LIMIT
Limited(rows, limit) ==
    IF limit > 0 /\ Len(rows) > limit THEN SubSeq(rows, 1, limit) ELSE rows

FindRet(opts, err, rows, mentioned, seeds, excluded) ==
    [op |-> "Find", opts |-> opts, err |-> err, rows |-> rows,
     mentioned |-> mentioned, seeds |-> seeds, excluded |-> excluded]

\* Find, run by a command in a transaction of its own.  What it returns is
\* recorded with the ids its paths resolved to and the ids it excluded.
Find(opts) ==
    /\ ~failed
    /\ txOps = 0
    /\ UNCHANGED <<notes, links, lastId, committed, failed, txOps>>
    /\ \E mentioned \in IF opts.mention = <<>> THEN {<<>>}
                        ELSE findIdsByPathPrefixes(notes, opts.mention[1]) :
         LET expanded == expandMentionsIntoMatch(notes, opts, mentioned)
             excluded == IF expanded.opts.excludeIds = <<>> THEN {}
                         ELSE Range(expanded.opts.excludeIds[1])
         IN IF expanded.err # NoErr
            THEN ret' = FindRet(opts, expanded.err, <<>>, mentioned, NoSeeds, {})
            ELSE \E seeds \in Seeds(notes, expanded.opts) :
                   LET found == findRows(notes, links, expanded.opts, seeds)
                   IN IF found.err # NoErr
                      THEN ret' = FindRet(opts, found.err, <<>>, mentioned, seeds, excluded)
                      ELSE \E dist \in Distances(found.ids, found.plan, links, found.tc) :
                           \E rows \in Orderings(notes, found.ids, found.terms, dist) :
                             ret' = FindRet(opts, NoErr, Limited(rows, opts.limit),
                                            mentioned, seeds, excluded)

\* the rows Find may return for opts when its link filters resolve to seeds
\* (no mention), as a set: for stating claims
FindIds(ns, ls, opts, seeds) == findRows(ns, ls, opts, seeds).ids

-----------------------------------------------------------------------------
(* The index writer's specification.                                       *)

Init ==
    /\ notes = {}
    /\ links = {}
    /\ lastId = 0
    /\ committed = Db({}, {}, 0)
    /\ failed = FALSE
    /\ txOps = 0
    /\ ret = Ret("Init", <<>>, NoErr, NullId)

\* a list command on the index: one link filter over one path
IndexFindOpts ==
    {[NoOpts EXCEPT !.linkedBy = <<LinkFilter(<<p>>, FALSE, FALSE, 0)>>] :
        p \in Paths \cup {MissingPath}}
    \cup {[NoOpts EXCEPT !.linkTo = <<LinkFilter(<<p>>, FALSE, FALSE, 0)>>] :
        p \in Paths \cup {MissingPath}}

FindIndexed == \E opts \in IndexFindOpts : Find(opts)

\* A run ends with its first query: Find changes nothing a later call
\* could see.
Next ==
    /\ ret.op # "Find"
    /\ (Add \/ Update \/ Remove \/ Commit \/ Rollback \/ FindIndexed)

Spec == Init /\ [][Next]_vars

-----------------------------------------------------------------------------
(* Find over link graphs.  Each initial state is an index the writer can   *)
(* produce: notes 1..GraphNotes added in order at paths none of which is a *)
(* prefix of another, each link's href the path of its target (the links   *)
(* to later notes healed by the backfill).                                 *)

GraphPathList == << <<"p">>, <<"q">>, <<"r">>, <<"s">>, <<"t">>, <<"x">> >>

GraphIds == 1..GraphNotes

\* the links note i was written with, in the order of their targets
GraphAuthored(i, edges) ==
    LET targets == {t \in GraphIds : <<i, t>> \in edges}
        rank(t) == Cardinality({u \in targets : u <= t})
    IN [k \in 1..Cardinality(targets) |->
          [href |-> GraphPathList[CHOOSE t \in targets : rank(t) = k],
           external |-> FALSE]]

GraphNoteRows(edges) ==
    {NoteRow(i, WriteNote(GraphPathList[i], GraphAuthored(i, edges)), {}) : i \in GraphIds}

RECURSIVE EdgeSets(_)
EdgeSets(k) ==
    IF k = 0 THEN {{}}
    ELSE LET smaller == EdgeSets(k - 1)
         IN smaller \cup {es \cup {e} : es \in smaller, e \in GraphIds \X GraphIds}

GraphLinkRows(edges) ==
    {LinkRow(e[1], Cardinality({t \in GraphIds : t <= e[2] /\ <<e[1], t>> \in edges}),
             e[2], [href |-> GraphPathList[e[2]], external |-> FALSE]) : e \in edges}

InitGraph ==
    /\ \E edges \in EdgeSets(MaxEdges) :
          /\ notes = GraphNoteRows(edges)
          /\ links = GraphLinkRows(edges)
    /\ lastId = GraphNotes
    /\ committed = Db(notes, links, lastId)
    /\ failed = FALSE
    /\ txOps = 0
    /\ ret = Ret("Init", <<>>, NoErr, NullId)

GraphSeedPaths == {GraphPathList[i] : i \in GraphIds} \cup {MissingPath}

GraphFilters ==
    {LinkFilter(<<p>>, negate, FALSE, 0) : p \in GraphSeedPaths, negate \in BOOLEAN}
    \cup {LinkFilter(<<p>>, FALSE, TRUE, d) : p \in GraphSeedPaths, d \in 0..MaxDistanceArg}
    \cup {LinkFilter(<<p>>, TRUE, TRUE, 0) : p \in GraphSeedPaths}

GraphFindOpts ==
    {[NoOpts EXCEPT !.linkedBy = <<f>>] : f \in GraphFilters}
    \cup {[NoOpts EXCEPT !.linkTo = <<f>>] : f \in GraphFilters}
    \cup {[NoOpts EXCEPT !.related = <<<<p>>>>] : p \in GraphSeedPaths}

\* one query per run: Find changes nothing a later query could see
FindLinked == ret.op = "Init" /\ \E opts \in GraphFindOpts : Find(opts)

SpecGraph == InitGraph /\ [][FindLinked]_vars

-----------------------------------------------------------------------------
(* Find with two link filters, over the same link graphs: a recursive      *)
(* LinkedBy filter beside a non-recursive LinkTo filter or a Related       *)
(* filter, whose path is a note's or no note's.                            *)

PairedPaths == {GraphPathList[GraphNotes], MissingPath}

PairedFindOpts ==
    {[NoOpts EXCEPT !.linkedBy = <<LinkFilter(<<GraphPathList[i]>>, FALSE, TRUE, d)>>,
                    !.linkTo = <<LinkFilter(<<p>>, negate, FALSE, e)>>] :
        i \in GraphIds, d \in 0..MaxDistanceArg, p \in PairedPaths,
        negate \in BOOLEAN, e \in 0..MaxDistanceArg}
    \cup {[NoOpts EXCEPT !.linkedBy = <<LinkFilter(<<GraphPathList[i]>>, FALSE, TRUE, d)>>,
                         !.related = <<<<p>>>>] :
        i \in GraphIds, d \in 0..MaxDistanceArg, p \in PairedPaths}

FindPaired == ret.op = "Init" /\ \E opts \in PairedFindOpts : Find(opts)

SpecPaired == InitGraph /\ [][FindPaired]_vars

-----------------------------------------------------------------------------
(* Find over catalogs: tag groups, sorting and mentions.  Each initial     *)
(* state is an index of CatalogNotes notes without links, each with one of *)
(* the contents of ProfileList.                                            *)

ProfileList ==
    << [title |-> <<"x">>, tags |-> {<<"f">>}, wordCount |-> 1, score |-> 2,
        words |-> {}, aliases |-> << <<"n", "x">> >>],
       [title |-> <<"y">>, tags |-> {<<"b">>}, wordCount |-> 1, score |-> 1,
        words |-> {<<"x">>}, aliases |-> <<>>],
       [title |-> <<"y">>, tags |-> {<<"f">>, <<"b">>}, wordCount |-> 0, score |-> 2,
        words |-> {<<"x">>, <<"n", "x">>}, aliases |-> <<>>],
       [title |-> <<"x", "\"">>, tags |-> {}, wordCount |-> 0, score |-> 1,
        words |-> {<<"y">>}, aliases |-> << <<"y">> >>],
       [title |-> <<"x">>, tags |-> {<<"f", "b">>}, wordCount |-> 2, score |-> 3,
        words |-> {}, aliases |-> <<>>] >>

Profiles == {ProfileList[i] : i \in 1..NumProfiles}

CatalogIds == 1..CatalogNotes

CatalogRow(i, profile) ==
    [NoteRow(i, [WriteNote(PathList[i], <<>>) EXCEPT
                   !.title = profile.title, !.wordCount = profile.wordCount,
                   !.aliases = profile.aliases, !.words = profile.words,
                   !.score = profile.score], profile.tags)
       EXCEPT !.id = i]

InitCatalog ==
    /\ \E content \in [CatalogIds -> Profiles] :
          notes = {CatalogRow(i, content[i]) : i \in CatalogIds}
    /\ links = {}
    /\ lastId = CatalogNotes
    /\ committed = Db(notes, links, lastId)
    /\ failed = FALSE
    /\ txOps = 0
    /\ ret = Ret("Init", <<>>, NoErr, NullId)

\* tag groups as the caller writes them
TagArgList ==
    << <<"f">>,
       <<"-", "f">>,
       <<"f", " ", "O", "R", " ", "-", "b">>,
       <<"N", "O", "T", " ", "f">>,
       <<"-", "f", "|", "b">>,
       <<"f", " ", "O", "R", " ", "b">>,
       <<"-", " ", "O", "R", " ", "f">>,
       <<"N", "O", "T", "b", " ", "O", "R", " ", "-", "f">>,
       <<"*">> >>

TagArgs == {TagArgList[i] : i \in 1..NumTagArgs}

TagFindOpts ==
    {[NoOpts EXCEPT !.tags = ts] : ts \in SeqsUpTo(TagArgs, MaxTagGroups) \ {<<>>}}

FindTagged == ret.op = "Init" /\ \E opts \in TagFindOpts : Find(opts)

Sorters ==
    {[field |-> f, ascending |-> a] : f \in {"wordCount", "title", "path"}, a \in BOOLEAN}

MatchX == <<{<<"x">>}>>

SortFindOpts ==
    {[NoOpts EXCEPT !.sorters = ss, !.match = m, !.limit = k] :
        ss \in SeqsUpTo(Sorters, MaxSorters), m \in {<<>>, MatchX}, k \in 0..MaxLimit}

FindSorted == ret.op = "Init" /\ \E opts \in SortFindOpts : Find(opts)

MentionFindOpts ==
    {[NoOpts EXCEPT !.mention = <<ps>>, !.excludeIds = ex, !.match = m] :
        ps \in SeqsUpTo({PathList[i] : i \in CatalogIds} \cup {MissingPath}, 1),
        ex \in {<<>>, << <<CatalogNotes>> >>},
        m \in {<<>>, MatchX}}

FindMentions == ret.op = "Init" /\ \E opts \in MentionFindOpts : Find(opts)

NextCatalog == FindTagged \/ FindSorted \/ FindMentions

SpecCatalog == InitCatalog /\ [][NextCatalog]_vars

-----------------------------------------------------------------------------
(* Claims about the index writer, checked under Spec.                      *)

LinkedByOpts(path, recursive, maxDistance) ==
    [NoOpts EXCEPT !.linkedBy = <<LinkFilter(<<path>>, FALSE, recursive, maxDistance)>>]

LinkToOpts(path, recursive, maxDistance) ==
    [NoOpts EXCEPT !.linkTo = <<LinkFilter(<<path>>, FALSE, recursive, maxDistance)>>]

\* the step is a successful Add
AddedOk == ret'.op = "Add" /\ ret'.err = NoErr

\* link l has no target and its href matches no indexed note
Unresolved(l) == l.tgt = NullId /\ findIdByPathPrefix(notes, l.href) = {NullId}

\* C1.  Forward-reference healing: when a note is added at a path that a
\* non-external link of an indexed note A has for href (or for a prefix),
\* the link having matched no indexed note until then, the link's target
\* becomes the new note in that very step, A's row untouched, and a LinkedBy
\* filter seeded with A returns the new note.
C1_ForwardReferenceHealing ==
    [][AddedOk =>
        \A l \in links :
            (Unresolved(l) /\ ~l.external /\ IsPrefix(l.href, ret'.path)) =>
                /\ [l EXCEPT !.tgt = ret'.id] \in links'
                /\ NoteById(notes, l.src) \in notes'
                /\ ret'.id \in FindIds(notes', links',
                                       LinkedByOpts(NoteById(notes, l.src).path, FALSE, 0),
                                       [NoSeeds EXCEPT !.linkedBy = <<l.src>>])]_vars

\* C1 with the filter it names: the healed link's new target is returned by
\* a LinkTo filter seeded with A.
C1_HealedLinkTo ==
    [][AddedOk =>
        \A l \in links :
            (Unresolved(l) /\ ~l.external /\ l.href = ret'.path) =>
                /\ [l EXCEPT !.tgt = ret'.id] \in links'
                /\ ret'.id \in FindIds(notes', links',
                                       LinkToOpts(NoteById(notes, l.src).path, FALSE, 0),
                                       [NoSeeds EXCEPT !.linkTo = <<l.src>>])]_vars

\* an Add has just healed a link of an older note
C1_Witness ==
    /\ ret.op = "Add"
    /\ ret.err = NoErr
    /\ \E l \in links : l.src # ret.id /\ l.tgt = ret.id /\ ~l.external

\* the authored links of a note, as (position, href, external)
AuthoredOf(authored) ==
    {<<i, authored[i].href, authored[i].external>> : i \in 1..Len(authored)}

\* the stored links of note id, as (position, href, external)
StoredOf(ls, id) == {<<l.pos, l.href, l.external>> : l \in {k \in ls : k.src = id}}

\* C8.  A successful Update(N) leaves N with exactly the links of the new
\* record, keeps N's id, and deletes no link of another note (it may only
\* set such a link's target).
C8_UpdateReplacesLinks ==
    [][(ret'.op = "Update" /\ ret'.err = NoErr) =>
        /\ ret'.id = findIdByPath(notes, ret'.path)
        /\ ret'.id = findIdByPath(notes', ret'.path)
        /\ StoredOf(links', ret'.id) = AuthoredOf(ret'.authored)
        /\ Cardinality({l \in links' : l.src = ret'.id}) = Len(ret'.authored)
        /\ \A id \in Ids(notes) \ {ret'.id} :
              /\ StoredOf(links', id) = StoredOf(links, id)
              /\ Cardinality({l \in links' : l.src = id})
                   = Cardinality({l \in links : l.src = id})]_vars

\* an Update has just dropped a link its note had, beside another note's links
C8_Witness ==
    /\ ret.op = "Update"
    /\ ret.err = NoErr
    /\ StoredOf(committed.links, ret.id) \ StoredOf(links, ret.id) # {}
    /\ \E l \in links : l.src # ret.id

\* C9.  Update and Remove of a path that is not indexed fail with NotFound
\* and change nothing; a successful Remove leaves its path unindexed, so
\* that a second Remove of the path fails with NotFound.
C9_NotFound ==
    [][/\ (ret'.op \in {"Update", "Remove"} /\ findIdByPath(notes, ret'.path) = NullId) =>
            /\ ret'.err = "NotFound"
            /\ UNCHANGED <<notes, links, lastId, committed>>
       /\ (ret'.op = "Remove" /\ ret'.err = NoErr) =>
            /\ findIdByPath(notes, ret'.path) # NullId
            /\ findIdByPath(notes', ret'.path) = NullId]_vars

\* a Remove has failed with NotFound on an index whose notes were all removed
C9_Witness ==
    /\ ret.op = "Remove"
    /\ ret.err = "NotFound"
    /\ notes = {}
    /\ lastId > 0

-----------------------------------------------------------------------------
(* Claims about link filters, checked under SpecGraph.                     *)

\* the resolved links, as (source, target)
GraphEdges == {<<l.src, l.tgt>> : l \in {k \in links : k.tgt # NullId}}

Reversed(edges) == {<<e[2], e[1]>> : e \in edges}

\* the notes a walk of 1 to hops edges reaches from one of the notes of from
RECURSIVE Within(_, _, _)
Within(from, edges, hops) ==
    IF hops = 0 \/ from = {} THEN {}
    ELSE LET next == {e[2] : e \in {f \in edges : f[1] \in from}}
         IN next \cup Within(next, edges, hops - 1)

\* maxDistance in hops: 0 is no bound, and no shortest walk is longer than
\* the number of notes
Hops(maxDistance) == IF maxDistance = 0 THEN Cardinality(notes) ELSE maxDistance

Chain == {<<1, 2>>, <<2, 3>>, <<3, 4>>}

\* Find has returned for a recursive, non-negated filter whose paths resolved
RecursiveFound(filter, seeds) ==
    /\ ret.op = "Find"
    /\ filter # <<>>
    /\ filter[1].recursive
    /\ ~filter[1].negate
    /\ seeds # <<>>

\* C2.  Closure bound: a recursive (non-negated) LinkedBy filter returns,
\* beside its seeds, exactly the notes its seeds reach in at most
\* maxDistance links, and every note they reach when maxDistance is 0; a
\* recursive LinkTo filter does the same along reversed links.  On the chain
\* 1->2->3->4, LinkedBy seeded with 1 returns {2, 3} for maxDistance 2 and
\* {2, 3, 4} for maxDistance 0.
C2_ClosureBound ==
    /\ RecursiveFound(ret.opts.linkedBy, ret.seeds.linkedBy) =>
          LET from == Range(ret.seeds.linkedBy)
              d == ret.opts.linkedBy[1].maxDistance
          IN /\ ret.err = NoErr
             /\ Range(ret.rows) \ from = Within(from, GraphEdges, Hops(d)) \ from
             /\ (GraphEdges = Chain /\ from = {1} /\ d = 2) => Range(ret.rows) = {2, 3}
             /\ (GraphEdges = Chain /\ from = {1} /\ d = 0) => Range(ret.rows) = {2, 3, 4}
    /\ RecursiveFound(ret.opts.linkTo, ret.seeds.linkTo) =>
          LET from == Range(ret.seeds.linkTo)
              d == ret.opts.linkTo[1].maxDistance
          IN /\ ret.err = NoErr
             /\ Range(ret.rows) \ from = Within(from, Reversed(GraphEdges), Hops(d)) \ from
             /\ (GraphEdges = Chain /\ from = {4} /\ d = 2) => Range(ret.rows) = {2, 3}

\* C2 with the filter it names: on the chain, the recursive LinkTo filter
\* seeded with note 1 returns {2, 3} for maxDistance 2 and {2, 3, 4} for
\* maxDistance 0.
C2_ChainLinkTo ==
    (RecursiveFound(ret.opts.linkTo, ret.seeds.linkTo)
        /\ GraphEdges = Chain /\ ret.seeds.linkTo = <<1>>) =>
            /\ ret.opts.linkTo[1].maxDistance = 2 => Range(ret.rows) = {2, 3}
            /\ ret.opts.linkTo[1].maxDistance = 0 => Range(ret.rows) = {2, 3, 4}

\* the recursive LinkedBy filter seeded with the head of the chain, with
\* maxDistance 2, has returned notes 2 and 3 and left out note 4
C2_Witness ==
    /\ RecursiveFound(ret.opts.linkedBy, ret.seeds.linkedBy)
    /\ GraphEdges = Chain
    /\ ret.seeds.linkedBy = <<1>>
    /\ ret.opts.linkedBy[1].maxDistance = 2
    /\ Range(ret.rows) = {2, 3}

\* C3.  Related: the traversal follows links in both directions, so that
\* with links 1->2 and 3->2 and no other, Related(1) returns exactly {3};
\* in general Related returns exactly the notes whose least distance from
\* the seed, over links taken in either direction, is 2.
C3_RelatedBothDirections ==
    (ret.op = "Find" /\ ret.opts.related # <<>> /\ ret.seeds.related # <<>>) =>
        LET from == Range(ret.seeds.related)
            both == GraphEdges \cup Reversed(GraphEdges)
        IN /\ ret.err = NoErr
           /\ Range(ret.rows) = Within(from, both, 2) \ (from \cup Within(from, both, 1))
           /\ (GraphEdges = {<<1, 2>>, <<3, 2>>} /\ from = {1}) => Range(ret.rows) = {3}

\* whether Find's criteria hold one link filter only, none of whose paths
\* resolved
OnlyUnresolved ==
    /\ ret.op = "Find"
    /\ ret.seeds = NoSeeds
    /\ \/ ret.opts = [NoOpts EXCEPT !.linkedBy = ret.opts.linkedBy] /\ ret.opts.linkedBy # <<>>
       \/ ret.opts = [NoOpts EXCEPT !.linkTo = ret.opts.linkTo] /\ ret.opts.linkTo # <<>>
       \/ ret.opts = [NoOpts EXCEPT !.related = ret.opts.related] /\ ret.opts.related # <<>>

\* C4.  A link filter (linkedBy, linkTo or related) none of whose paths
\* resolves to an indexed note is a no-op: Find succeeds and returns what it
\* returns without the filter, here every note.
C4_UnresolvedFilterNoOp ==
    OnlyUnresolved =>
        /\ ret.err = NoErr
        /\ Range(ret.rows) = FindIds(notes, links, NoOpts, NoSeeds)
        /\ Range(ret.rows) = Ids(notes)

-----------------------------------------------------------------------------
(* Claims about tags, sorting and mentions, checked under SpecCatalog.     *)

\* whether a tag group, as written, holds a negated pattern beside another
\* pattern
NegatedInOrGroup(tagsArg) ==
    LET parts == SplitTags(tagsArg, <<>>)
    IN \E i, j \in 1..Len(parts) :
          /\ i # j
          /\ ParseTag(parts[i]).negate
          /\ ParseTag(parts[i]).glob # <<>>
          /\ ParseTag(parts[j]).glob # <<>>

\* C5.  Tag negation: the single group "-f" returns exactly the notes not
\* tagged f; criteria with a tag group that holds a negated pattern beside
\* another pattern make Find fail with InvalidQuery; and a Find that fails
\* returns no rows.
C5_TagNegation ==
    (ret.op = "Find" /\ ret.opts.tags # <<>>) =>
        /\ ret.opts.tags = <<<<"-", "f">>>> =>
              /\ ret.err = NoErr
              /\ Range(ret.rows) = {n.id : n \in {m \in notes : <<"f">> \notin m.tags}}
        /\ (\E i \in 1..Len(ret.opts.tags) : NegatedInOrGroup(ret.opts.tags[i])) =>
              ret.err = "InvalidQuery"
        /\ ret.err # NoErr => ret.rows = <<>>

\* Find has failed with InvalidQuery for "f OR -b" on an index with a note
\* tagged f and a note not tagged b
C5_Witness ==
    /\ ret.op = "Find"
    /\ ret.opts.tags = <<<<"f", " ", "O", "R", " ", "-", "b">>>>
    /\ ret.err = "InvalidQuery"
    /\ ret.rows = <<>>
    /\ \E n \in notes : <<"f">> \in n.tags
    /\ \E n \in notes : <<"b">> \notin n.tags

\* whether a sorts strictly before b on a sorter's field, ascending
FieldLess(field, a, b) ==
    CASE field = "wordCount" -> a.wordCount < b.wordCount
      [] field = "title" -> StrLess(a.title, b.title)
      [] field = "path" -> StrLess(a.path, b.path)

\* whether the caller's sorters put a strictly before b
RECURSIVE SortersBefore(_, _, _)
SortersBefore(sorters, a, b) ==
    IF sorters = <<>> THEN FALSE
    ELSE LET less(x, y) == IF Head(sorters).ascending
                           THEN FieldLess(Head(sorters).field, x, y)
                           ELSE FieldLess(Head(sorters).field, y, x)
         IN IF less(a, b) THEN TRUE
            ELSE IF less(b, a) THEN FALSE
            ELSE SortersBefore(Tail(sorters), a, b)

SortersTie(sorters, a, b) ==
    ~SortersBefore(sorters, a, b) /\ ~SortersBefore(sorters, b, a)

\* Find has returned rows for criteria with a match expression
MatchFound ==
    /\ ret.op = "Find"
    /\ ret.err = NoErr
    /\ ret.opts.match # <<>>
    /\ ret.opts.mention = <<>>

\* C6.  Sort key composition: with a match expression, the caller's sorters
\* come first, the relevance score (bm25, least first) orders the rows the
\* sorters tie on, and title ascending orders the rows that tie on both.
C6_SortKeyComposition ==
    MatchFound =>
        \A i, j \in 1..Len(ret.rows) :
            i < j =>
                LET a == NoteById(notes, ret.rows[i])
                    b == NoteById(notes, ret.rows[j])
                IN /\ ~SortersBefore(ret.opts.sorters, b, a)
                   /\ SortersTie(ret.opts.sorters, a, b) => a.score <= b.score
                   /\ (SortersTie(ret.opts.sorters, a, b) /\ a.score = b.score) =>
                          ~StrLess(b.title, a.title)

\* C6 with relevance as the first key: two rows with different relevance are
\* ordered by relevance whatever the sorters say, and title ascending breaks
\* the last ties.
C6_RelevanceFirst ==
    MatchFound =>
        \A i, j \in 1..Len(ret.rows) :
            i < j =>
                LET a == NoteById(notes, ret.rows[i])
                    b == NoteById(notes, ret.rows[j])
                IN /\ a.score <= b.score
                   /\ (a.score = b.score /\ SortersTie(ret.opts.sorters, a, b)) =>
                          ~StrLess(b.title, a.title)

\* Find has returned, for a match expression and a sorter, a row the sorter
\* puts before a more relevant one, and two rows the sorter ties on, in the
\* order of their relevance and against the order of their titles
C6_Witness ==
    /\ MatchFound
    /\ ret.opts.sorters # <<>>
    /\ \E i, j \in 1..Len(ret.rows) :
          /\ i < j
          /\ SortersBefore(ret.opts.sorters, NoteById(notes, ret.rows[i]),
                           NoteById(notes, ret.rows[j]))
          /\ NoteById(notes, ret.rows[j]).score < NoteById(notes, ret.rows[i]).score
    /\ \E i, j \in 1..Len(ret.rows) :
          /\ i < j
          /\ SortersTie(ret.opts.sorters, NoteById(notes, ret.rows[i]),
                        NoteById(notes, ret.rows[j]))
          /\ NoteById(notes, ret.rows[i]).score < NoteById(notes, ret.rows[j]).score
          /\ StrLess(NoteById(notes, ret.rows[j]).title, NoteById(notes, ret.rows[i]).title)

\* the ids the caller asked to exclude
CallerExcluded == IF ret.opts.excludeIds = <<>> THEN {} ELSE Range(ret.opts.excludeIds[1])

\* C7.  Mention self-exclusion: when the mentioned paths of a Find resolve
\* to at least one note, the ids the query excludes are the resolved ids
\* and the caller's excluded ids, and no excluded id is among the rows.
C7_MentionSelfExclusion ==
    (ret.op = "Find" /\ ret.opts.mention # <<>> /\ ret.mentioned # <<>>) =>
        /\ ret.err = NoErr
        /\ ret.excluded = Range(ret.mentioned) \cup CallerExcluded
        /\ Range(ret.rows) \cap ret.excluded = {}

\* a mention query has returned rows, its mentioned note (whose own text
\* holds its title) left out beside a note the caller excluded
C7_Witness ==
    /\ ret.op = "Find"
    /\ ret.opts.mention # <<>>
    /\ ret.mentioned # <<>>
    /\ ret.rows # <<>>
    /\ CallerExcluded # {}
    /\ Range(ret.mentioned) \cap CallerExcluded = {}
    /\ \E id \in Range(ret.mentioned) :
          FtsMatch(NoteById(notes, id),
                   expandMentionsIntoMatch(notes, ret.opts, ret.mentioned).opts.match)

-----------------------------------------------------------------------------
(* Claims about the transitive closure, checked under SpecGraph.           *)

\* the rows of transitive_closure of the query Find has run
FoundClosure == findRows(notes, links, ret.opts, ret.seeds).tc

\* Find has returned for criteria that made it build transitive_closure
ClosureFound ==
    /\ ret.op = "Find"
    /\ ret.err = NoErr
    /\ LinkPlan(ret.opts, ret.seeds).transitiveClosure

\* whether the ids of path are pairwise different
Simple(path) == \A i, j \in 1..Len(path) : i # j => path[i] # path[j]

\* C11.  Cycle guard and termination: on every link graph, with cycles and
\* self-links, the closure is finite and Find returns, also for maxDistance
\* 0: every row is a walk along links from its source to its target whose
\* distance is its number of links, at most the number of notes; no hop
\* after the first leads to a note already on the path, so a path is simple
\* after its first link, which alone may be a self-link (a note that links
\* to itself is reached from itself, at distance 1 only).
C11_CycleGuard ==
    ClosureFound =>
        /\ Cardinality(FoundClosure) <= RecursionLimit
        /\ \A r \in FoundClosure :
              /\ r.distance = Len(r.path) - 1
              /\ 1 <= r.distance /\ r.distance <= Cardinality(notes)
              /\ r.src = r.path[1] /\ r.tgt = r.path[Len(r.path)]
              /\ \A i \in 1..r.distance : <<r.path[i], r.path[i + 1]>> \in GraphEdges
              /\ Simple(Tail(r.path))
              /\ \A i \in 3..Len(r.path) : r.path[i] # r.path[1]
              /\ r.src = r.tgt => r.distance = 1

\* C11 without the exception: every traversal path is a simple path, and no
\* note is reached from itself.
C11_SimplePaths ==
    ClosureFound =>
        \A r \in FoundClosure : Simple(r.path) /\ r.src # r.tgt

\* a recursive Find has returned on a graph with a cycle: a hop back to a
\* note of the path was there to prune, and one note is reached from one
\* source at two distances
C11_Witness ==
    /\ ClosureFound
    /\ LinkPlan(ret.opts, ret.seeds).maxDistance = 0
    /\ \E r \in FoundClosure : \E e \in GraphEdges :
          e[1] = r.tgt /\ e[2] \in Range(r.path) /\ r.distance >= 2
    /\ \E r, q \in FoundClosure :
          r.src = q.src /\ r.tgt = q.tgt /\ r.distance # q.distance

-----------------------------------------------------------------------------
(* Claims about combined link filters, checked under SpecPaired.           *)

\* C12.  The distance bound of a recursive link filter is its own
\* maxDistance, whatever other link filter the criteria hold: a recursive
\* LinkedBy filter with maxDistance d, beside a LinkTo filter or a Related
\* filter, returns only notes within d links of its seeds.
C12_OwnMaxDistance ==
    (/\ RecursiveFound(ret.opts.linkedBy, ret.seeds.linkedBy)
     /\ ret.opts.linkTo # <<>> \/ ret.opts.related # <<>>
     /\ ret.err = NoErr) =>
        LET from == Range(ret.seeds.linkedBy)
            d == ret.opts.linkedBy[1].maxDistance
        IN Range(ret.rows) \subseteq from \cup Within(from, GraphEdges, Hops(d))

-----------------------------------------------------------------------------
(* Claims about the links of the whole index, checked under Spec.          *)

\* C13.  Healing invariant: after any sequence of successful Add, Update
\* and Remove, no non-external link without target has for href a prefix of
\* the path of an indexed note, and every link with a target points to an
\* indexed note whose path has the link's href for prefix.
C13_HealingInvariant ==
    ~failed =>
        /\ \A l \in links :
              (l.tgt = NullId /\ ~l.external) =>
                  ~\E n \in notes : IsPrefix(l.href, n.path)
        /\ \A l \in links :
              l.tgt # NullId =>
                  /\ l.tgt \in Ids(notes)
                  /\ IsPrefix(l.href, NoteById(notes, l.tgt).path)

====
